---- MODULE Spec2Model ----
(***************************************************************************)
(* The github-env audit of zizmor (src/audit/github_env.rs): the detector   *)
(* of writes into $GITHUB_ENV from the `run:` body of a workflow step.      *)
(*                                                                         *)
(* A script text is a record of its lexical pieces; the text itself is a   *)
(* sequence of atoms (strings that the regular expressions of the source   *)
(* treat as units), and a byte is one character of an atom.  The           *)
(* tree-sitter grammars are an external crate: BashTree and PwshTree build *)
(* the syntax tree of a script, with the node kinds the queries of the     *)
(* source name and the byte ranges of the nodes.                           *)
(***************************************************************************)
EXTENDS Integers, Sequences, FiniteSets, TLC

VARIABLES step, pc, result, detection, bash_parser, pwsh_parser, callers, parser_gives,
          earlier

vars == <<step, pc, result, detection, bash_parser, pwsh_parser, callers, parser_gives,
          earlier>>

(* Bounds of the model. *)
MaxArgs == 2
MaxStages == 2
MaxCallers == 2
MaxEarlier == 2

----------------------------------------------------------------------------
(* Text and syntax nodes. *)

RECURSIVE Bytes(_)
Bytes(text) == IF text = <<>> THEN 0 ELSE Len(Head(text)) + Bytes(Tail(text))

RECURSIVE Flatten(_)
Flatten(texts) == IF texts = <<>> THEN <<>> ELSE Head(texts) \o Flatten(Tail(texts))

Tok(atom) == [tok |-> <<atom>>]

(* A syntax node before its bytes are counted: its kind, its field in the  *)
(* parent and its source in order, anonymous tokens and named child nodes. *)
Leaf(kind, text) == [kind |-> kind, field |-> "", items |-> <<[tok |-> text]>>]

Compose(kind, items) == [kind |-> kind, field |-> "", items |-> items]

AddToken(acc, tok) == [acc EXCEPT !.text = @ \o tok, !.at = @ + Bytes(tok)]

AddChild(acc, child) ==
    [text |-> acc.text \o child.text, at |-> child.range[2],
     children |-> Append(acc.children, child)]

Placed(node, start, acc) ==
    [kind |-> node.kind, field |-> node.field, text |-> acc.text,
     children |-> acc.children, range |-> <<start, acc.at>>]

(* The node with its text, its named children and its byte range, when it  *)
(* starts at byte `start` of the script.                                    *)
RECURSIVE Layout(_, _)
RECURSIVE LayoutItems(_, _)
Layout(node, start) ==
    Placed(node, start,
           LayoutItems(node.items, [text |-> <<>>, at |-> start, children |-> <<>>]))

LayoutItems(items, acc) ==
    IF items = <<>> THEN acc
    ELSE IF "tok" \in DOMAIN Head(items)
    THEN LayoutItems(Tail(items), AddToken(acc, Head(items).tok))
    ELSE LayoutItems(Tail(items), AddChild(acc, Layout(Head(items), acc.at)))

Field(name, node) == [node EXCEPT !.field = name]

RECURSIVE Descendants(_)
Descendants(node) ==
    {node} \cup UNION {Descendants(node.children[i]) : i \in DOMAIN node.children}

Children(node) == {node.children[i] : i \in DOMAIN node.children}

(* Sequences over S of length lo..hi. *)
SeqsOf(S, lo, hi) == UNION {[1..n -> S] : n \in lo..hi}

(* Items separated by single spaces. *)
RECURSIVE Spaced(_)
Spaced(items) ==
    IF Len(items) <= 1 THEN items
    ELSE <<Head(items), Tok(" ")>> \o Spaced(Tail(items))

----------------------------------------------------------------------------
(* Regular expressions over atoms. *)

Upper(atom) ==
    CASE atom \in {"github_env", "GitHub_Env", "GITHUB_ENV"} -> "GITHUB_ENV"
      [] atom \in {"env:", "Env:", "ENV:"} -> "ENV:"
      [] atom \in {"out-file", "Out-File", "OUT-FILE"} -> "OUT-FILE"
      [] atom \in {"add-content", "Add-Content"} -> "ADD-CONTENT"
      [] atom \in {"set-content", "Set-Content"} -> "SET-CONTENT"
      [] atom \in {"tee-object", "Tee-Object"} -> "TEE-OBJECT"
      [] atom \in {"rem", "REM"} -> "REM"
      [] OTHER -> atom

Fold(text, nocase) == IF nocase THEN [i \in DOMAIN text |-> Upper(text[i])] ELSE text

(* Regex::is_match of a literal pattern: the literal occurs somewhere.     *)
Contains(text, literal, nocase) ==
    LET t == Fold(text, nocase)
        l == Fold(literal, nocase)
    IN  \E i \in 1..(Len(t) - Len(l) + 1) : SubSeq(t, i, i + Len(l) - 1) = l

----------------------------------------------------------------------------
(* Script texts.  A lexical word of a script is [form, name]: a bare word,  *)
(* a quoted literal, a variable reference in one of its spellings, or a    *)
(* command substitution.                                                    *)

Lex(form, name) == [form |-> form, name |-> name]

SENSITIVE == <<"GITHUB_ENV">>

(* The source text of a lexical word. *)
LexText(lex) ==
    CASE lex.form = "word"     -> lex.name
      [] lex.form = "squote"   -> <<"'">> \o lex.name \o <<"'">>
      [] lex.form = "dq_lit"   -> <<"\"">> \o lex.name \o <<"\"">>
      [] lex.form = "dq_empty" -> <<"\"", "\"">>
      [] lex.form = "var"      -> <<"$">> \o lex.name
      [] lex.form = "brace"    -> <<"${">> \o lex.name \o <<"}">>
      [] lex.form = "dq_var"   -> <<"\"", "$">> \o lex.name \o <<"\"">>
      [] lex.form = "dq_brace" -> <<"\"", "${">> \o lex.name \o <<"}", "\"">>
      [] lex.form = "subst"    -> <<"$(">> \o lex.name \o <<")">>
      [] lex.form = "assign_subst" -> <<"FOO=", "$(">> \o lex.name \o <<")">>
      [] lex.form = "pct"      -> <<"%">> \o lex.name \o <<"%">>
      [] lex.form = "dq_pct"   -> <<"\"", "%">> \o lex.name \o <<"%", "\"">>
      [] lex.form = "param"    -> lex.name

(* The bash syntax node of a lexical word. *)
BashWord(lex) ==
    LET simple == Compose("simple_expansion", <<Tok("$"), Leaf("variable_name", lex.name)>>)
        braced == Compose("expansion", <<Tok("${"), Leaf("variable_name", lex.name), Tok("}")>>)
        subst  == Compose("command_substitution",
                          <<Tok("$("),
                            Compose("command",
                                    <<Field("name", Leaf("command_name", lex.name))>>),
                            Tok(")")>>)
    IN  CASE lex.form = "squote"   -> Leaf("raw_string", LexText(lex))
          [] lex.form = "dq_lit"   ->
                Compose("string", <<Tok("\""), Leaf("string_content", lex.name), Tok("\"")>>)
          [] lex.form = "dq_empty" -> Compose("string", <<Tok("\""), Tok("\"")>>)
          [] lex.form = "var"      -> simple
          [] lex.form = "brace"    -> braced
          [] lex.form = "dq_var"   -> Compose("string", <<Tok("\""), simple, Tok("\"")>>)
          [] lex.form = "dq_brace" -> Compose("string", <<Tok("\""), braced, Tok("\"")>>)
          [] lex.form = "subst"    -> subst
          [] lex.form = "assign_subst" ->
                Compose("concatenation", <<Leaf("word", <<"FOO=">>), subst>>)
          [] OTHER -> Leaf("word", LexText(lex))

BashCommand(stage) ==
    Compose("command",
            Spaced(<<Field("name", Leaf("command_name", <<stage.name>>))>>
                   \o [i \in DOMAIN stage.args |-> Field("argument", BashWord(stage.args[i]))]))

BashFileRedirect(r) ==
    Compose("file_redirect", <<Tok(r.op), Tok(" "), Field("destination", BashWord(r.dest))>>)

BashPipeline(stages) ==
    LET RECURSIVE Piped(_)
        Piped(cmds) == IF Len(cmds) <= 1 THEN cmds
                       ELSE <<Head(cmds), Tok(" "), Tok("|"), Tok(" ")>> \o Piped(Tail(cmds))
    IN  Compose("pipeline", Piped([i \in DOMAIN stages |-> BashCommand(stages[i])]))

BashStatement(script) ==
    IF Len(script.stages) > 1 THEN BashPipeline(script.stages)
    ELSE IF script.redirects = <<>> THEN BashCommand(script.stages[1])
    ELSE Compose("redirected_statement",
                 Spaced(<<Field("body", BashCommand(script.stages[1]))>>
                        \o [i \in DOMAIN script.redirects |->
                               Field("redirect", BashFileRedirect(script.redirects[i]))]))

(* What the bash grammar makes of a script: one statement, then the        *)
(* trailing comment when there is one.                                      *)
BashTree(script) ==
    Layout(Compose("program",
                   Spaced(<<BashStatement(script)>>
                          \o (IF script.comment = <<>> THEN <<>>
                              ELSE <<Leaf("comment", script.comment)>>))),
           0)

----------------------------------------------------------------------------
(* The bash detector. *)

RECURSIVE Preorder(_)
Preorder(node) ==
    <<node>> \o Flatten([i \in DOMAIN node.children |-> Preorder(node.children[i])])

FieldChildren(node, name) == SelectSeq(node.children, LAMBDA c : c.field = name)

HasChildOfKind(node, kind) == \E c \in Children(node) : c.kind = kind

(* [ (string (_ (variable_name))) (expansion (variable_name))              *)
(*   (simple_expansion (variable_name)) ]                                   *)
BashRedirectDestinationShape(node) ==
    \/ node.kind = "string" /\ \E c \in Children(node) : HasChildOfKind(c, "variable_name")
    \/ node.kind = "expansion" /\ HasChildOfKind(node, "variable_name")
    \/ node.kind = "simple_expansion" /\ HasChildOfKind(node, "variable_name")

(* [ (string (_ (variable_name))) (expansion) (simple_expansion) ]          *)
BashPipelineArgShape(node) ==
    \/ node.kind = "string" /\ \E c \in Children(node) : HasChildOfKind(c, "variable_name")
    \/ node.kind = "expansion"
    \/ node.kind = "simple_expansion"

(* The match of the name without regard to case. *)
MatchesGitHubEnvNoCase(node) == Contains(node.text, SENSITIVE, TRUE)

(* (#match? @destination "GITHUB_ENV"), (#match? @arg "GITHUB_ENV") *)
MatchesGitHubEnv(node) == Contains(node.text, SENSITIVE, FALSE)

(* (#match? @cmd "tee") *)
MatchesTee(node) == Contains(node.text, <<"tee">>, FALSE)

(* The matches of BASH_REDIRECT_QUERY in document order: one for each      *)
(* redirected_statement, command in it and file_redirect after it whose    *)
(* destination has the shape and the text.                                  *)
BashRedirectMatches(tree) ==
    LET OfStatement(n) ==
            LET cmds == SelectSeq(n.children,
                            LAMBDA c : c.kind = "command"
                                       /\ FieldChildren(c, "name") # <<>>
                                       /\ FieldChildren(c, "name")[1].kind = "command_name")
                reds == SelectSeq(n.children, LAMBDA c : c.kind = "file_redirect")
                OfPair(c, f) ==
                    LET dests == SelectSeq(f.children,
                                     LAMBDA d : BashRedirectDestinationShape(d)
                                                /\ MatchesGitHubEnv(d))
                    IN  IF c.range[2] <= f.range[1]
                        THEN [i \in DOMAIN dests |->
                                 [cmd |-> FieldChildren(c, "name")[1],
                                  args |-> FieldChildren(c, "argument"),
                                  destination |-> dests[i],
                                  span |-> n]]
                        ELSE <<>>
            IN  Flatten([i \in DOMAIN cmds |->
                            Flatten([j \in DOMAIN reds |-> OfPair(cmds[i], reds[j])])])
        nodes == SelectSeq(Preorder(tree), LAMBDA n : n.kind = "redirected_statement")
    IN  Flatten([i \in DOMAIN nodes |-> OfStatement(nodes[i])])

(* The matches of BASH_PIPELINE_QUERY in document order: one for each      *)
(* pipeline, command in it named like tee and argument of it with the      *)
(* shape and the text.                                                      *)
BashPipelineMatches(tree) ==
    LET OfPipeline(n) ==
            LET cmds == SelectSeq(n.children,
                            LAMBDA c : c.kind = "command"
                                       /\ FieldChildren(c, "name") # <<>>
                                       /\ FieldChildren(c, "name")[1].kind = "command_name"
                                       /\ MatchesTee(FieldChildren(c, "name")[1]))
                OfCommand(c) ==
                    LET as == SelectSeq(FieldChildren(c, "argument"),
                                  LAMBDA a : BashPipelineArgShape(a) /\ MatchesGitHubEnv(a))
                    IN  [i \in DOMAIN as |->
                            [cmd |-> FieldChildren(c, "name")[1], arg |-> as[i], span |-> n]]
            IN  Flatten([i \in DOMAIN cmds |-> OfCommand(cmds[i])])
        nodes == SelectSeq(Preorder(tree), LAMBDA n : n.kind = "pipeline")
    IN  Flatten([i \in DOMAIN nodes |-> OfPipeline(nodes[i])])

(* A classifier that takes no double-quoted argument for a literal. *)
bash_echo_arg_is_bare(arg) ==
    \/ arg.kind = "word"
    \/ arg.kind = "raw_string"

bash_echo_arg_is_safe(arg) ==
    \/ arg.kind = "word"
    \/ arg.kind = "raw_string"
    \/ Len(arg.children) = 1 /\ arg.children[1].kind = "string_content"

bash_echo_args_are_safe(args) == \A i \in DOMAIN args : bash_echo_arg_is_safe(args[i])

(* A filter that exempts every `echo`, whatever its arguments. *)
BashRedirectReportedUnlessEcho(mat) == mat.cmd.text # <<"echo">>

(* The filter of the redirect matches: those whose command is not `echo`   *)
(* or has an argument that is not a literal.                                *)
BashRedirectReported(mat) ==
    mat.cmd.text # <<"echo">> \/ ~bash_echo_args_are_safe(mat.args)

(* A collection that applies the exemption of a static `echo` to the       *)
(* pipelines that start with one.                                           *)
BashSpansExemptingPipelines(tree) ==
    LET red  == SelectSeq(BashRedirectMatches(tree), BashRedirectReported)
        pipe == SelectSeq(BashPipelineMatches(tree),
                          LAMBDA m : \/ m.span.children[1].children[1].text # <<"echo">>
                                     \/ ~bash_echo_args_are_safe(
                                            FieldChildren(m.span.children[1], "argument")))
    IN  [i \in DOMAIN red |-> red[i].span.range] \o [i \in DOMAIN pipe |-> pipe[i].span.range]

(* The spans bash_uses_github_env collects from a parsed tree. *)
BashSpans(tree) ==
    LET red  == SelectSeq(BashRedirectMatches(tree), BashRedirectReported)
        pipe == BashPipelineMatches(tree)
    IN  [i \in DOMAIN red |-> red[i].span.range] \o [i \in DOMAIN pipe |-> pipe[i].span.range]

----------------------------------------------------------------------------
(* The pwsh detector. *)

(* The PowerShell syntax node of a lexical word, as a command element or a *)
(* redirection target.                                                      *)
PwshWord(lex) ==
    LET variable == Leaf("variable", LexText(Lex(IF lex.form \in {"brace", "dq_brace"}
                                                 THEN "brace" ELSE "var", lex.name)))
        Expr(n)  == Compose("array_literal_expression", <<Compose("unary_expression", <<n>>)>>)
        Quoted(items) ==
            Compose("string_literal",
                    <<Compose("expandable_string_literal",
                              <<Tok("\"")>> \o items \o <<Tok("\"")>>)>>)
    IN  CASE lex.form \in {"var", "brace"}       -> Expr(variable)
          [] lex.form \in {"dq_var", "dq_brace"} -> Expr(Quoted(<<variable>>))
          [] lex.form = "dq_lit"   -> Expr(Quoted([i \in DOMAIN lex.name |-> Tok(lex.name[i])]))
          [] lex.form = "param"    -> Leaf("command_parameter", LexText(lex))
          [] OTHER                 -> Leaf("generic_token", LexText(lex))

PwshRedirection(r) ==
    Compose("redirection",
            <<Leaf("file_redirection_operator", <<r.op>>), Tok(" "),
              Compose("redirected_file_name", <<PwshWord(r.dest)>>)>>)

PwshCommand(stage, redirects) ==
    LET elems == [i \in DOMAIN stage.args |-> PwshWord(stage.args[i])]
                 \o [i \in DOMAIN redirects |-> PwshRedirection(redirects[i])]
    IN  Compose("command",
                IF elems = <<>>
                THEN <<Field("command_name", Leaf("command_name", <<stage.name>>))>>
                ELSE <<Field("command_name", Leaf("command_name", <<stage.name>>)),
                       Tok(" "),
                       Field("command_elements", Compose("command_elements", Spaced(elems)))>>)

(* What the PowerShell grammar makes of a script: one pipeline, then the   *)
(* trailing comment when there is one.                                      *)
PwshTree(script) ==
    LET n == Len(script.stages)
        RECURSIVE Piped(_)
        Piped(cmds) == IF Len(cmds) <= 1 THEN cmds
                       ELSE <<Head(cmds), Tok(" "), Tok("|"), Tok(" ")>> \o Piped(Tail(cmds))
        cmds == [i \in 1..n |->
                    PwshCommand(script.stages[i], IF i = n THEN script.redirects ELSE <<>>)]
    IN  Layout(Compose("program",
                       Spaced(<<Compose("pipeline", Piped(cmds))>>
                              \o (IF script.comment = <<>> THEN <<>>
                                  ELSE <<Leaf("comment", script.comment)>>))),
               0)

(* (#match? @destination "(?i)ENV:GITHUB_ENV") *)
MatchesEnvGitHubEnv(node) == Contains(node.text, <<"ENV:">> \o SENSITIVE, TRUE)

(* (#match? @cmd "(?i)out-file|add-content|set-content|tee-object") *)
MatchesWriterCmdlet(node) ==
    \E lit \in {"out-file", "add-content", "set-content", "tee-object"} :
        Contains(node.text, <<lit>>, TRUE)

(* (array_literal_expression (unary_expression                             *)
(*    [ (string_literal (expandable_string_literal (variable) @destination)) *)
(*      (variable) @destination ]))                                        *)
PwshDestinations(node) ==
    IF node.kind # "array_literal_expression" THEN {}
    ELSE UNION {
           {v \in Children(u) : v.kind = "variable"}
           \cup UNION {
                  UNION {{v \in Children(e) : v.kind = "variable"} :
                           e \in {e \in Children(l) : e.kind = "expandable_string_literal"}} :
                    l \in {l \in Children(u) : l.kind = "string_literal"}} :
             u \in {u \in Children(node) : u.kind = "unary_expression"}}

(* The matches of PWSH_REDIRECT_QUERY. *)
PwshRedirectMatches(tree) ==
    {[destination |-> d, span |-> r] :
        <<r, d>> \in
          {<<r, d>> \in
              UNION {{<<r, d>> :
                        d \in UNION {UNION {PwshDestinations(a) : a \in Children(f)} :
                                       f \in {f \in Children(r) :
                                                /\ f.kind = "redirected_file_name"
                                                /\ \E o \in Children(r) :
                                                     /\ o.kind = "file_redirection_operator"
                                                     /\ o.range[2] <= f.range[1]}}} :
                       r \in {r \in Descendants(tree) : r.kind = "redirection"}} :
              MatchesEnvGitHubEnv(d)}}

(* The matches of PWSH_PIPELINE_QUERY. *)
PwshPipelineMatches(tree) ==
    UNION {UNION {UNION {
        {[cmd |-> nm, destination |-> d, span |-> p] :
            d \in {d \in UNION {PwshDestinations(a) : a \in Children(el)} :
                     MatchesEnvGitHubEnv(d)}} :
          el \in {el \in Children(c) : el.field = "command_elements"
                                       /\ el.kind = "command_elements"
                                       /\ nm.range[2] <= el.range[1]}} :
        <<c, nm>> \in {<<c, nm>> \in
                         UNION {{<<c, nm>> : nm \in Children(c)} :
                                  c \in {c \in Children(p) : c.kind = "command"}} :
                         /\ nm.field = "command_name"
                         /\ nm.kind = "command_name"
                         /\ MatchesWriterCmdlet(nm)}} :
      p \in {p \in Descendants(tree) : p.kind = "pipeline"}}

----------------------------------------------------------------------------
(* The cmd detector: GITHUB_ENV_WRITE_CMD,                                  *)
(*   (?mi)^.+\s*>>?\s*"?%GITHUB_ENV%"?.*$                                   *)

IsSpace(atom) == atom \in {" ", "\t", "\n"}

At(text, i) == IF i \in DOMAIN text THEN text[i] ELSE ""

(* The positions \s* can reach from position i. *)
AfterSpaces(text, i) ==
    {j \in i..(Len(text) + 1) : \A k \in i..(j - 1) : IsSpace(text[k])}

(* Regex::is_match: a line start, `.+` up to e, `\s*`, `>`, an optional    *)
(* `>`, `\s*`, an optional quote and %GITHUB_ENV% in any letter case; the  *)
(* rest of the pattern, `"?.*$`, matches whatever follows.                  *)
GITHUB_ENV_WRITE_CMD(text) ==
    \E s \in DOMAIN text : \E e \in s..Len(text) :
        /\ s = 1 \/ text[s - 1] = "\n"
        /\ \A k \in s..e : text[k] # "\n"
        /\ \E g \in AfterSpaces(text, e + 1) :
             /\ At(text, g) = ">"
             /\ \E h \in {g + 1} \cup (IF At(text, g + 1) = ">" THEN {g + 2} ELSE {}) :
                  \E q \in AfterSpaces(text, h) :
                     \E d \in {q} \cup (IF At(text, q) = "\"" THEN {q + 1} ELSE {}) :
                        /\ At(text, d) = "%"
                        /\ Upper(At(text, d + 1)) = "GITHUB_ENV"
                        /\ At(text, d + 2) = "%"

----------------------------------------------------------------------------
(* The dispatcher. *)

(* The text of a script: what `run:` holds. *)
ScriptText(script) ==
    CASE script.lang = "bash" -> BashTree(script).text
      [] script.lang = "pwsh" -> PwshTree(script).text
      [] OTHER                -> script.text

Ok(value) == [kind |-> "Ok", value |-> value]
Err(msg) == [kind |-> "Err", value |-> msg]
Panic(msg) == [kind |-> "Panic", value |-> msg]

(* A cell that hands out a mutable borrow without checking its flag. *)
CanBorrowMutUnchecked(parser) == TRUE

(* RefCell::borrow_mut on a parser: a second mutable borrow panics. *)
CanBorrowMut(parser) == ~parser.borrowed

(* A parse statement that keeps the borrow when the parse fails. *)
AfterParseKeptOnFailure(parser, parsed) == [parser EXCEPT !.borrowed = ~parsed]

(* The parser after `parser.borrow_mut().parse(..)?`: the RefMut is a      *)
(* temporary of the statement and is dropped with it, also on the early    *)
(* return.                                                                  *)
AfterParse(parser, parsed) == [parser EXCEPT !.borrowed = FALSE]

NoTree == [kind |-> "None"]

(* Parser::parse(script_body, None): a tree, or None.                       *)
Parse(grammar, script, parsed) ==
    IF ~parsed THEN NoTree
    ELSE IF grammar = "bash" THEN BashTree(script) ELSE PwshTree(script)

(* A detection: what the call returned, the spans the bash detector        *)
(* collected, the parser and query operations it ran and the warnings it   *)
(* logged.                                                                  *)
Detection(ret, spans, calls, warnings) ==
    [ret |-> ret, spans |-> spans, calls |-> calls, warnings |-> warnings]

(* bash_uses_github_env after the parse: the `?` on the parse, then the    *)
(* two queries and the spans they give.                                     *)
BashFound(spans) ==
    Detection(Ok(spans), spans,
              <<"bash_parser.parse", "bash_redirect_query", "bash_pipeline_query">>, <<>>)

(* A detector that takes a failed parse for a script without matches. *)
BashDetectionLenient(tree) ==
    IF tree.kind = "None" THEN BashFound(<<>>) ELSE BashFound(BashSpans(tree))

BashDetection(tree) ==
    IF tree.kind = "None"
    THEN Detection(Err("failed to parse run: body as bash"), <<>>,
                   <<"bash_parser.parse">>, <<>>)
    ELSE BashFound(BashSpans(tree))

bash_uses_github_env(parser, script, parsed) ==
    IF ~CanBorrowMut(parser)
    THEN Detection(Panic("already borrowed"), <<>>, <<"bash_parser.borrow_mut">>, <<>>)
    ELSE BashDetection(Parse("bash", script, parsed))

(* pwsh_uses_github_env after the parse: the `?` on the parse, then the    *)
(* queries in order; the first with a match returns true.                   *)
PwshDetection(tree) ==
    IF tree.kind = "None"
    THEN Detection(Err("failed to parse run: body as pwsh"), <<>>,
                   <<"pwsh_parser.parse">>, <<>>)
    ELSE IF PwshRedirectMatches(tree) # {}
    THEN Detection(Ok(TRUE), <<>>, <<"pwsh_parser.parse", "pwsh_redirect_query">>, <<>>)
    ELSE Detection(Ok(PwshPipelineMatches(tree) # {}), <<>>,
                   <<"pwsh_parser.parse", "pwsh_redirect_query", "pwsh_pipeline_query">>,
                   <<>>)

pwsh_uses_github_env(parser, script, parsed) ==
    IF ~CanBorrowMut(parser)
    THEN Detection(Panic("already borrowed"), <<>>, <<"pwsh_parser.borrow_mut">>, <<>>)
    ELSE PwshDetection(Parse("pwsh", script, parsed))

(* .map(|r| !r.is_empty()) *)
NonEmpty(d) == IF d.ret.kind = "Ok" THEN [d EXCEPT !.ret = Ok(d.ret.value # <<>>)] ELSE d

(* A dispatcher that fails on a shell it does not support. *)
uses_github_env_strict(bash, pwsh, script, shell, parsed) ==
    CASE shell \in {"bash", "sh"} -> NonEmpty(bash_uses_github_env(bash, script, parsed))
      [] shell = "cmd" ->
            Detection(Ok(GITHUB_ENV_WRITE_CMD(ScriptText(script))), <<>>,
                      <<"GITHUB_ENV_WRITE_CMD.is_match">>, <<>>)
      [] shell \in {"pwsh", "powershell"} -> pwsh_uses_github_env(pwsh, script, parsed)
      [] OTHER -> Detection(Err("shell not supported"), <<>>, <<>>, <<>>)

uses_github_env(bash, pwsh, script, shell, parsed) ==
    CASE shell \in {"bash", "sh"} -> NonEmpty(bash_uses_github_env(bash, script, parsed))
      [] shell = "cmd" ->
            Detection(Ok(GITHUB_ENV_WRITE_CMD(ScriptText(script))), <<>>,
                      <<"GITHUB_ENV_WRITE_CMD.is_match">>, <<>>)
      [] shell \in {"pwsh", "powershell"} -> pwsh_uses_github_env(pwsh, script, parsed)
      [] OTHER ->
            Detection(Ok(FALSE), <<>>, <<>>,
                      << <<"shell not supported when evaluating usage of GITHUB_ENV", shell>> >>)

(* Which parser a detection through `shell` borrows. *)
ParserOf(shell) ==
    CASE shell \in {"bash", "sh"} -> "bash"
      [] shell \in {"pwsh", "powershell"} -> "pwsh"
      [] OTHER -> "none"

----------------------------------------------------------------------------
(* The rule adapter. *)

NoShell == "<none>"

TheFinding ==
    [ident |-> "github-env", severity |-> "High", confidence |-> "Low",
     locations |-> <<[primary |-> TRUE, keys |-> <<"run">>,
                      annotation |-> "GITHUB_ENV write may allow code execution"]>>]

(* The gate with its test inverted. *)
has_no_dangerous_triggers(workflow) ==
    ~(workflow.has_workflow_run \/ workflow.has_pull_request_target)

has_dangerous_triggers(workflow) ==
    workflow.has_workflow_run \/ workflow.has_pull_request_target

(* step.shell().unwrap_or_else(|| { warn; "bash" }) *)
ResolveShell(s) == IF s.shell = NoShell THEN "bash" ELSE s.shell

(* The warning of the shell fallback, logged before the detection's own. *)
WithShellWarning(s, d) ==
    IF s.shell = NoShell
    THEN [d EXCEPT !.warnings =
             << <<"github-env: could not determine shell type", "bash">> >> \o @]
    ELSE d

(* A report that pushes one finding for each span the detection collected. *)
ReportEachSpan(d) ==
    [ret |-> IF d.ret.kind # "Ok" THEN d.ret
             ELSE IF d.ret.value THEN Ok([i \in 1..Len(d.spans) |-> TheFinding])
             ELSE Ok(<<>>),
     detection |-> d, detected |-> TRUE]

(* `if self.uses_github_env(run, shell)? { findings.push(..) }` *)
Report(d) ==
    [ret |-> IF d.ret.kind # "Ok" THEN d.ret
             ELSE IF d.ret.value THEN Ok(<<TheFinding>>) ELSE Ok(<<>>),
     detection |-> d, detected |-> TRUE]

NotDetected ==
    [ret |-> Ok(<<>>), detection |-> Detection(Ok(FALSE), <<>>, <<>>, <<>>),
     detected |-> FALSE]

(* audit_step: the returned Result, with the detection it ran (or none).   *)
audit_step(bash, pwsh, s, parsed) ==
    IF ~has_dangerous_triggers(s.workflow) THEN NotDetected
    ELSE IF s.body.kind = "Run"
    THEN Report(WithShellWarning(
                    s, uses_github_env(bash, pwsh, s.body.run, ResolveShell(s), parsed)))
    ELSE NotDetected

----------------------------------------------------------------------------
(* The scripts and steps the model audits. *)

Ops == {">", ">>"}

Redirects(dests) == {<<>>} \cup {<<[op |-> o, dest |-> d]>> : o \in Ops, d \in dests}

VarForms == {"var", "brace", "dq_var", "dq_brace"}

BashArgs ==
    {Lex("word", <<"foo">>), Lex("squote", <<"foo">>), Lex("dq_lit", <<"foo">>),
     Lex("dq_var", <<"foo">>), Lex("var", <<"foo">>), Lex("subst", <<"bar">>),
     Lex("assign_subst", <<"bar">>)}

BashDests ==
    {Lex(f, SENSITIVE) : f \in VarForms}
    \cup {Lex("var", <<"github_env">>), Lex("dq_brace", <<"github_env">>),
          Lex("var", <<"OTHER_ENV">>), Lex("var", <<"MY_", "GITHUB_ENV">>),
          Lex("word", SENSITIVE)}

BashComments == {<<>>, <<"#", " ", "not", " ", "$", "GITHUB_ENV">>}

(* The arguments of the scripts of audited steps: a literal and a variable. *)
StepArgs == {Lex("word", <<"foo">>), Lex("var", <<"foo">>)}

BashPipeStages ==
    {[name |-> "echo", args |-> <<Lex("word", <<"foo">>)>>],
     [name |-> "echo", args |-> <<Lex("var", SENSITIVE)>>],
     [name |-> "tee", args |-> <<Lex("var", SENSITIVE)>>],
     [name |-> "tee", args |-> <<Lex("param", <<"-a">>), Lex("dq_brace", SENSITIVE)>>],
     [name |-> "tee", args |-> <<Lex("var", <<"OTHER_ENV">>)>>],
     [name |-> "tee", args |-> <<Lex("word", SENSITIVE)>>]}

BashScripts(args) ==
    {[lang |-> "bash", stages |-> <<[name |-> n, args |-> a]>>, redirects |-> r,
      comment |-> c] :
        n \in {"echo", "unknown-command"}, a \in SeqsOf(args, 0, MaxArgs),
        r \in Redirects(BashDests), c \in BashComments}
    \cup {[lang |-> "bash", stages |-> st, redirects |-> <<>>, comment |-> c] :
            st \in SeqsOf(BashPipeStages, 2, MaxStages), c \in BashComments}

PwshTargets ==
    {Lex("var", <<"env:", "GITHUB_ENV">>), Lex("brace", <<"env:", "GITHUB_ENV">>),
     Lex("dq_brace", <<"env:", "GITHUB_ENV">>), Lex("var", <<"Env:", "GitHub_Env">>),
     Lex("var", SENSITIVE), Lex("word", SENSITIVE), Lex("word", <<"bar">>)}

PwshComments == {<<>>, <<"#", " ", "not", " ", "$", "env:", "GITHUB_ENV">>}

PwshCmdlets == {"foo", "Out-File", "OUT-FILE", "Add-Content", "Set-Content", "Tee-Object"}

PwshScripts ==
    {[lang |-> "pwsh", stages |-> <<[name |-> n, args |-> <<>>]>>, redirects |-> r,
      comment |-> c] :
        n \in {"foo", "Out-File"}, r \in Redirects(PwshTargets), c \in PwshComments}
    \cup {[lang |-> "pwsh",
           stages |-> <<[name |-> "echo", args |-> <<Lex("dq_lit", <<"foo">>)>>],
                        [name |-> n, args |-> a]>>,
           redirects |-> <<>>, comment |-> c] :
            n \in PwshCmdlets,
            a \in {<<t>> : t \in PwshTargets}
                  \cup {<<Lex("param", <<"-FilePath">>), t>> : t \in PwshTargets},
            c \in PwshComments}

CmdDests ==
    {Lex("pct", SENSITIVE), Lex("dq_pct", SENSITIVE), Lex("pct", <<"github_env">>),
     Lex("pct", <<"OTHER_ENV">>), Lex("word", SENSITIVE)}

CmdComments ==
    {<<>>, <<"&", " ", "REM", " ", "%", "GITHUB_ENV", "%">>,
     <<"&", " ", "REM", " ", ">", " ", "%", "GITHUB_ENV", "%">>}

(* A cmd script: a line `cmd op dest`, with or without the spaces, the     *)
(* command and a line before it, then the trailing comment when there is   *)
(* one.                                                                     *)
CmdScripts ==
    {[lang |-> "cmd", dest |-> dest, comment |-> c,
      text |-> Flatten(<<prefix, cmd, gap1, op, gap2, LexText(dest),
                         IF c = <<>> THEN <<>> ELSE <<" ">> \o c>>)] :
        prefix \in {<<>>, <<"echo", " ", "X", " ", ">", "\n">>},
        cmd \in {<<>>, <<"echo", " ", "X">>},
        gap1 \in {<<>>, <<" ">>},
        op \in {<<">">>, <<">", ">">>},
        gap2 \in {<<>>, <<" ">>},
        dest \in CmdDests,
        c \in CmdComments}

Scripts(args) == BashScripts(args) \cup PwshScripts \cup CmdScripts

Unsupported == {"python", "Bash"}

(* The shells a step with this script can name: the dialect the script is  *)
(* written in, or one the audit does not support.                           *)
ShellsFor(script) ==
    Unsupported \cup
    (CASE script.lang = "bash" -> {"bash", "sh"}
       [] script.lang = "pwsh" -> {"pwsh", "powershell"}
       [] OTHER -> {"cmd"})

Workflows == [has_workflow_run : BOOLEAN, has_pull_request_target : BOOLEAN]

Shells == {"bash", "sh", "pwsh", "powershell", "cmd"} \cup Unsupported \cup {NoShell}

RunSteps(args) ==
    {s \in {[workflow |-> w, body |-> [kind |-> "Run", run |-> sc], shell |-> sh] :
               w \in Workflows, sc \in Scripts(args), sh \in Shells} :
        s.shell \in ShellsFor(s.body.run)
                    \cup (IF s.body.run.lang = "bash" THEN {NoShell} ELSE {})}

UsesSteps ==
    {[workflow |-> w, body |-> [kind |-> "Uses"], shell |-> NoShell] : w \in Workflows}

----------------------------------------------------------------------------
(* The audit of a step.  parser_gives is what Parser::parse gives for the   *)
(* script of the audit: a tree, or None.                                    *)

NoResult == [kind |-> "None", value |-> <<>>]
NoDetection == Detection(NoResult, <<>>, <<>>, <<>>)
NewParser == [borrowed |-> FALSE]
Idle == [c \in 1..MaxCallers |-> [pc |-> "idle", dialect |-> "none"]]

Init ==
    /\ step \in RunSteps(StepArgs) \cup UsesSteps
    /\ pc = "ready"
    /\ result = NoResult
    /\ detection = NoDetection
    /\ bash_parser = NewParser
    /\ pwsh_parser = NewParser
    /\ callers = Idle
    /\ parser_gives = "pending"
    /\ earlier = <<>>

(* The parsers after a detection through `shell` that returned `ret`. *)
Parsed(shell, ret, parsed) ==
    /\ bash_parser' = IF ParserOf(shell) = "bash" /\ ret.kind # "Panic"
                      THEN AfterParse(bash_parser, parsed) ELSE bash_parser
    /\ pwsh_parser' = IF ParserOf(shell) = "pwsh" /\ ret.kind # "Panic"
                      THEN AfterParse(pwsh_parser, parsed) ELSE pwsh_parser

Audited(r, parsed) ==
    /\ result' = r.ret
    /\ detection' = IF r.detected THEN r.detection ELSE NoDetection
    /\ IF r.detected
       THEN Parsed(ResolveShell(step), r.ret, parsed)
       ELSE UNCHANGED <<bash_parser, pwsh_parser>>

AuditStep ==
    /\ pc = "ready"
    /\ \E parsed \in BOOLEAN :
         /\ Audited(audit_step(bash_parser, pwsh_parser, step, parsed), parsed)
         /\ parser_gives' = IF parsed THEN "tree" ELSE "none"
    /\ pc' = "done"
    /\ UNCHANGED <<step, callers, earlier>>

Next == AuditStep

Spec == Init /\ [][Next]_vars

----------------------------------------------------------------------------
(* Detection called directly, as the unit tests call it:                   *)
(* sut.uses_github_env(case, shell) on a fresh detector.                    *)

(* The shells that run a script written in its dialect. *)
DialectShells(script) == ShellsFor(script) \ Unsupported

DetectSteps(args) ==
    {s \in {[workflow |-> [has_workflow_run |-> FALSE, has_pull_request_target |-> FALSE],
              body |-> [kind |-> "Run", run |-> sc], shell |-> sh] :
               sc \in Scripts(args), sh \in Shells} :
        s.shell \in DialectShells(s.body.run)}

InitDetect ==
    /\ step \in DetectSteps(BashArgs)
    /\ pc = "ready"
    /\ result = NoResult
    /\ detection = NoDetection
    /\ bash_parser = NewParser
    /\ pwsh_parser = NewParser
    /\ callers = Idle
    /\ parser_gives = "pending"
    /\ earlier = <<>>

Detected(d, parsed) ==
    /\ detection' = d
    /\ Parsed(step.shell, d.ret, parsed)

Detect ==
    /\ pc = "ready"
    /\ \E parsed \in BOOLEAN :
         /\ Detected(uses_github_env(bash_parser, pwsh_parser, step.body.run, step.shell,
                                     parsed),
                     parsed)
         /\ parser_gives' = IF parsed THEN "tree" ELSE "none"
    /\ pc' = "done"
    /\ UNCHANGED <<step, result, callers, earlier>>

NextDetect == Detect

SpecDetect == InitDetect /\ [][NextDetect]_vars

----------------------------------------------------------------------------
(* Activations of uses_github_env on one detector, interleaved: each takes *)
(* its dialect's parser with borrow_mut, parses, drops the borrow, runs    *)
(* the queries on the tree and returns.                                     *)

Callers == 1..MaxCallers

ParserFor(dialect) == IF dialect = "bash" THEN bash_parser ELSE pwsh_parser

(* RefCell::borrow_mut: the borrow flag of the cell is set. *)
BorrowMut(parser) == [parser EXCEPT !.borrowed = TRUE]

InitConc ==
    /\ step \in UsesSteps
    /\ ~has_dangerous_triggers(step.workflow)
    /\ pc = "ready"
    /\ result = NoResult
    /\ detection = NoDetection
    /\ bash_parser = NewParser
    /\ pwsh_parser = NewParser
    /\ callers = Idle
    /\ parser_gives = "pending"
    /\ earlier = <<>>

(* uses_github_env(run, shell) is entered. *)
Call(c) ==
    /\ callers[c].pc = "idle"
    /\ \E shell \in {"bash", "sh", "pwsh", "powershell", "cmd"} \cup Unsupported :
         callers' = [callers EXCEPT ![c] =
                        IF ParserOf(shell) = "none"
                        THEN [pc |-> "returned", dialect |-> "none"]
                        ELSE [pc |-> "called", dialect |-> ParserOf(shell)]]
    /\ UNCHANGED <<step, pc, result, detection, bash_parser, pwsh_parser, parser_gives,
                 earlier>>

(* self.<dialect>_parser.borrow_mut() *)
Borrow(c) ==
    /\ callers[c].pc = "called"
    /\ LET d == callers[c].dialect
       IN  IF CanBorrowMut(ParserFor(d))
           THEN /\ callers' = [callers EXCEPT ![c].pc = "parsing"]
                /\ bash_parser' = IF d = "bash" THEN BorrowMut(bash_parser) ELSE bash_parser
                /\ pwsh_parser' = IF d = "pwsh" THEN BorrowMut(pwsh_parser) ELSE pwsh_parser
           ELSE /\ callers' = [callers EXCEPT ![c].pc = "panicked"]
                /\ UNCHANGED <<bash_parser, pwsh_parser>>
    /\ UNCHANGED <<step, pc, result, detection, parser_gives, earlier>>

(* .parse(script_body, None) ends and the statement's RefMut is dropped. *)
FinishParse(c) ==
    /\ callers[c].pc = "parsing"
    /\ \E parsed \in BOOLEAN :
         LET d == callers[c].dialect
         IN  /\ callers' = [callers EXCEPT ![c].pc = IF parsed THEN "querying" ELSE "failed"]
             /\ bash_parser' = IF d = "bash" THEN AfterParse(bash_parser, parsed)
                               ELSE bash_parser
             /\ pwsh_parser' = IF d = "pwsh" THEN AfterParse(pwsh_parser, parsed)
                               ELSE pwsh_parser
    /\ UNCHANGED <<step, pc, result, detection, parser_gives, earlier>>

(* The queries run on the tree and the call returns. *)
Query(c) ==
    /\ callers[c].pc = "querying"
    /\ callers' = [callers EXCEPT ![c].pc = "returned"]
    /\ UNCHANGED <<step, pc, result, detection, bash_parser, pwsh_parser, parser_gives,
                 earlier>>

(* The caller takes the returned value or error and may call again. *)
Return(c) ==
    /\ callers[c].pc \in {"returned", "failed"}
    /\ callers' = [callers EXCEPT ![c] = [pc |-> "idle", dialect |-> "none"]]
    /\ UNCHANGED <<step, pc, result, detection, bash_parser, pwsh_parser, parser_gives,
                 earlier>>

NextConc ==
    \E c \in Callers : Call(c) \/ Borrow(c) \/ FinishParse(c) \/ Query(c) \/ Return(c)

SpecConc == InitConc /\ [][NextConc]_vars

----------------------------------------------------------------------------
(* Detections one after another on one detector: uses_github_env is called *)
(* again after it returned, with any script and shell; `earlier` is the    *)
(* shell and the outcome of each call that returned before the current.    *)

SeqScripts ==
    {sc \in BashScripts(StepArgs) :
        /\ sc.comment = <<>>
        /\ \/ /\ Len(sc.stages) = 1
              /\ Len(sc.stages[1].args) = 1
              /\ sc.redirects \in {<<>>,
                                   <<[op |-> ">>", dest |-> Lex("var", SENSITIVE)]>>,
                                   <<[op |-> ">>", dest |-> Lex("var", <<"OTHER_ENV">>)]>>}
           \/ sc.stages = <<[name |-> "echo", args |-> <<Lex("word", <<"foo">>)>>],
                            [name |-> "tee", args |-> <<Lex("var", SENSITIVE)>>]>>}
    \cup {sc \in PwshScripts :
            /\ sc.comment = <<>>
            /\ sc.stages = <<[name |-> "foo", args |-> <<>>]>>
            /\ sc.redirects \in {<<[op |-> ">", dest |-> Lex("var", <<"env:", "GITHUB_ENV">>)]>>,
                                 <<[op |-> ">", dest |-> Lex("word", <<"bar">>)]>>}}
    \cup {sc \in CmdScripts :
            /\ sc.comment = <<>>
            /\ sc.text \in {<<"echo", " ", "X", " ", ">", ">", " ", "%", "GITHUB_ENV", "%">>,
                            <<"echo", " ", "X", " ", ">", ">", " ", "%", "OTHER_ENV", "%">>}}

SeqSteps ==
    {s \in {[workflow |-> [has_workflow_run |-> FALSE, has_pull_request_target |-> FALSE],
              body |-> [kind |-> "Run", run |-> sc], shell |-> sh] :
               sc \in SeqScripts, sh \in {"bash", "pwsh", "cmd", "python"}} :
        s.shell \in ShellsFor(s.body.run)}

InitSeq ==
    /\ step \in SeqSteps
    /\ pc = "ready"
    /\ result = NoResult
    /\ detection = NoDetection
    /\ bash_parser = NewParser
    /\ pwsh_parser = NewParser
    /\ callers = Idle
    /\ parser_gives = "pending"
    /\ earlier = <<>>

(* The call has returned (a panic does not return); the caller calls       *)
(* uses_github_env again, on the same detector.                             *)
NextCall ==
    /\ pc = "done"
    /\ detection.ret.kind # "Panic"
    /\ Len(earlier) < MaxEarlier
    /\ earlier' = Append(earlier, [shell |-> step.shell, kind |-> detection.ret.kind])
    /\ step' \in SeqSteps
    /\ pc' = "ready"
    /\ detection' = NoDetection
    /\ parser_gives' = "pending"
    /\ UNCHANGED <<result, bash_parser, pwsh_parser, callers>>

NextSeq == Detect \/ NextCall

SpecSeq == InitSeq /\ [][NextSeq]_vars

----------------------------------------------------------------------------
(* Properties of the audit of a step (Spec).                                *)

(* C1: when the workflow of the audited step declares neither workflow_run *)
(* nor pull_request_target, audit_step returns Ok with no findings,        *)
(* whatever the body, script or shell of the step is, and it has run no    *)
(* detector and no parser: no call is recorded, no warning is logged and   *)
(* both parsers are untouched.                                              *)
C1_Gate ==
    (/\ pc = "done"
     /\ ~step.workflow.has_workflow_run
     /\ ~step.workflow.has_pull_request_target)
    => /\ result = Ok(<<>>)
       /\ detection = NoDetection
       /\ bash_parser = NewParser
       /\ pwsh_parser = NewParser

(* An audited run step without a dangerous trigger whose script detection  *)
(* would report.                                                            *)
C1_Witness ==
    /\ pc = "done"
    /\ ~step.workflow.has_workflow_run
    /\ ~step.workflow.has_pull_request_target
    /\ step.body.kind = "Run"
    /\ step.shell = "bash"
    /\ step.body.run.lang = "bash"
    /\ uses_github_env(NewParser, NewParser, step.body.run, "bash", TRUE).ret = Ok(TRUE)
    /\ result = Ok(<<>>)

C3_Dispatch ==
    (/\ pc = "done"
     /\ step.workflow.has_workflow_run \/ step.workflow.has_pull_request_target
     /\ step.body.kind = "Run")
    => /\ step.shell \in {"bash", "sh", NoShell}
            <=> (detection.calls # <<>> /\ Head(detection.calls) = "bash_parser.parse")
       /\ step.shell \in {"pwsh", "powershell"}
            <=> (detection.calls # <<>> /\ Head(detection.calls) = "pwsh_parser.parse")
       /\ step.shell = "cmd" <=> detection.calls = <<"GITHUB_ENV_WRITE_CMD.is_match">>
       /\ step.shell \notin {"bash", "sh", NoShell, "pwsh", "powershell", "cmd"}
            => /\ detection.ret = Ok(FALSE)
               /\ detection.calls = <<>>
               /\ detection.warnings # <<>>
               /\ bash_parser = NewParser /\ pwsh_parser = NewParser
               /\ result = Ok(<<>>)

(* A run step under a dangerous trigger whose shell is `Bash` and whose    *)
(* script the bash detector would report: no parse, no finding.            *)
C3_Witness ==
    /\ pc = "done"
    /\ step.workflow.has_workflow_run
    /\ step.body.kind = "Run"
    /\ step.shell = "Bash"
    /\ step.body.run.lang = "bash"
    /\ uses_github_env(NewParser, NewParser, step.body.run, "bash", TRUE).ret = Ok(TRUE)
    /\ detection.ret = Ok(FALSE)
    /\ detection.calls = <<>>
    /\ result = Ok(<<>>)

(* C9: when the parse of the bash or pwsh script of an audited run step    *)
(* fails, the detector returns an error after the parse alone: no pattern  *)
(* has run and there is no span and no boolean; audit_step returns that    *)
(* error, so no finding; both parsers are released, and a later audit of   *)
(* the step on the same detector, with a parse that succeeds, returns Ok.  *)
C9_ParseFailure ==
    (/\ pc = "done"
     /\ step.workflow.has_workflow_run \/ step.workflow.has_pull_request_target
     /\ step.body.kind = "Run"
     /\ step.shell \in {"bash", "sh", NoShell, "pwsh", "powershell"}
     /\ parser_gives = "none")
    => /\ detection.ret.kind = "Err"
       /\ detection.spans = <<>>
       /\ detection.calls \in {<<"bash_parser.parse">>, <<"pwsh_parser.parse">>}
       /\ result = detection.ret
       /\ ~bash_parser.borrowed
       /\ ~pwsh_parser.borrowed
       /\ audit_step(bash_parser, pwsh_parser, step, TRUE).ret.kind = "Ok"

(* An audited bash step whose script would be reported and whose parse     *)
(* failed: an error and no finding.                                         *)
C9_Witness ==
    /\ pc = "done"
    /\ step.workflow.has_workflow_run
    /\ step.body.kind = "Run"
    /\ step.shell = "sh"
    /\ parser_gives = "none"
    /\ result.kind = "Err"
    /\ audit_step(bash_parser, pwsh_parser, step, TRUE).ret = Ok(<<TheFinding>>)

----------------------------------------------------------------------------
(* Properties of the detection of a script (SpecDetect).                    *)

(* C4: for a bash script that is `echo` with only literal arguments (bare  *)
(* words, single-quoted literals, double-quoted strings of literal         *)
(* content) redirected with > or >> into $GITHUB_ENV, ${GITHUB_ENV} or     *)
(* either of them in double quotes, the bash detector, once the script is  *)
(* parsed, returns no span: detection reports no usage.                     *)
C4_StaticEcho ==
    (/\ pc = "done"
     /\ step.body.run.lang = "bash"
     /\ Len(step.body.run.stages) = 1
     /\ step.body.run.stages[1].name = "echo"
     /\ \A i \in DOMAIN step.body.run.stages[1].args :
            step.body.run.stages[1].args[i].form \in {"word", "squote", "dq_lit"}
     /\ step.body.run.redirects # <<>>
     /\ step.body.run.redirects[1].dest.form \in VarForms
     /\ step.body.run.redirects[1].dest.name = SENSITIVE
     /\ detection.ret.kind = "Ok")
    => /\ detection.spans = <<>>
       /\ detection.ret = Ok(FALSE)

(* `echo 'foo' "foo" > "${GITHUB_ENV}"` detected: nothing reported. *)
C4_Witness ==
    /\ pc = "done"
    /\ step.body.run.lang = "bash"
    /\ step.body.run.stages = <<[name |-> "echo",
                                 args |-> <<Lex("squote", <<"foo">>),
                                            Lex("dq_lit", <<"foo">>)>>]>>
    /\ step.body.run.redirects = <<[op |-> ">", dest |-> Lex("dq_brace", SENSITIVE)]>>
    /\ "bash_redirect_query" \in {detection.calls[i] : i \in DOMAIN detection.calls}
    /\ detection.ret = Ok(FALSE)

(* C5: for a bash script in which one command is redirected with > or >>   *)
(* into the sensitive variable, when the command is not named `echo`, or   *)
(* is `echo` with an argument that holds a variable expansion or a command *)
(* substitution, the bash detector, once the script is parsed, reports     *)
(* usage: its spans are not empty and hold the byte range of the whole     *)
(* redirected statement (from byte 0 to the end of the destination).       *)
C5_UnsafeRedirect ==
    (/\ pc = "done"
     /\ step.body.run.lang = "bash"
     /\ Len(step.body.run.stages) = 1
     /\ step.body.run.redirects # <<>>
     /\ step.body.run.redirects[1].dest.form \in VarForms
     /\ step.body.run.redirects[1].dest.name = SENSITIVE
     /\ \/ step.body.run.stages[1].name # "echo"
        \/ \E i \in DOMAIN step.body.run.stages[1].args :
              step.body.run.stages[1].args[i].form
                  \in {"var", "dq_var", "subst", "assign_subst"}
     /\ detection.ret.kind = "Ok")
    => /\ detection.ret = Ok(TRUE)
       /\ \E k \in DOMAIN detection.spans :
              detection.spans[k] =
                  <<0,
                    Len(step.body.run.stages[1].name)
                    + Bytes(Flatten([i \in DOMAIN step.body.run.stages[1].args |->
                                       <<" ">> \o LexText(step.body.run.stages[1].args[i])]))
                    + 1 + Len(step.body.run.redirects[1].op) + 1
                    + Bytes(LexText(step.body.run.redirects[1].dest))>>

(* `echo foo $(bar) >> $GITHUB_ENV # not $GITHUB_ENV` detected: reported,  *)
(* with the range of the statement, which ends before the comment.         *)
C5_Witness ==
    /\ pc = "done"
    /\ step.body.run.lang = "bash"
    /\ step.body.run.stages = <<[name |-> "echo",
                                 args |-> <<Lex("word", <<"foo">>),
                                            Lex("subst", <<"bar">>)>>]>>
    /\ step.body.run.redirects = <<[op |-> ">>", dest |-> Lex("var", SENSITIVE)]>>
    /\ step.body.run.comment # <<>>
    /\ detection.spans = << <<0, 30>> >>
    /\ detection.ret = Ok(TRUE)

(* C6: the classifier of `echo` arguments bears on the redirect pattern    *)
(* only.  A bash pipeline with a stage named tee that has an argument      *)
(* expanding the sensitive variable is reported once it is parsed, with    *)
(* the range of the pipeline, also when its other stages are a static      *)
(* `echo`; a parsed pwsh script that redirects into env:GITHUB_ENV, or     *)
(* pipes a static `echo` into a writer cmdlet with that argument, is       *)
(* reported.                                                                *)
C6_NoExemptionElsewhere ==
    (pc = "done" /\ detection.ret.kind = "Ok")
    => /\ (/\ step.body.run.lang = "bash"
           /\ Len(step.body.run.stages) >= 2
           /\ \E i \in DOMAIN step.body.run.stages :
                 /\ step.body.run.stages[i].name = "tee"
                 /\ \E j \in DOMAIN step.body.run.stages[i].args :
                       /\ step.body.run.stages[i].args[j].form \in VarForms
                       /\ step.body.run.stages[i].args[j].name = SENSITIVE)
          => /\ detection.ret = Ok(TRUE)
             /\ \E k \in DOMAIN detection.spans : detection.spans[k][1] = 0
       /\ (/\ step.body.run.lang = "pwsh"
           /\ \/ /\ step.body.run.redirects # <<>>
                 /\ step.body.run.redirects[1].dest.form \in {"var", "brace", "dq_brace"}
                 /\ Fold(step.body.run.redirects[1].dest.name, TRUE)
                       = <<"ENV:", "GITHUB_ENV">>
              \/ /\ Len(step.body.run.stages) = 2
                 /\ step.body.run.stages[2].name # "foo"
                 /\ \E j \in DOMAIN step.body.run.stages[2].args :
                       /\ step.body.run.stages[2].args[j].form
                             \in {"var", "brace", "dq_brace"}
                       /\ Fold(step.body.run.stages[2].args[j].name, TRUE)
                             = <<"ENV:", "GITHUB_ENV">>)
          => detection.ret = Ok(TRUE)

(* `echo foo | tee -a "${GITHUB_ENV}"` detected: the static echo does not  *)
(* exempt the pipeline.                                                     *)
C6_Witness ==
    /\ pc = "done"
    /\ step.body.run.lang = "bash"
    /\ step.body.run.stages =
          <<[name |-> "echo", args |-> <<Lex("word", <<"foo">>)>>],
            [name |-> "tee", args |-> <<Lex("param", <<"-a">>), Lex("dq_brace", SENSITIVE)>>]>>
    /\ Len(detection.spans) = 1
    /\ detection.ret = Ok(TRUE)

(* C7: in every dialect, a script whose redirection targets something      *)
(* other than the sensitive variable and that names the sensitive variable *)
(* only in the trailing comment of the line reports no usage.               *)
C7_CommentsNeverScanned ==
    (/\ pc = "done"
     /\ detection.ret.kind = "Ok"
     /\ step.body.run.comment # <<>>
     /\ \/ /\ step.body.run.lang = "bash"
           /\ Len(step.body.run.stages) = 1
           /\ step.body.run.redirects # <<>>
           /\ step.body.run.redirects[1].dest = Lex("var", <<"OTHER_ENV">>)
        \/ /\ step.body.run.lang = "pwsh"
           /\ Len(step.body.run.stages) = 1
           /\ step.body.run.redirects # <<>>
           /\ step.body.run.redirects[1].dest = Lex("word", <<"bar">>)
        \/ /\ step.body.run.lang = "cmd"
           /\ step.body.run.dest = Lex("pct", <<"OTHER_ENV">>))
    => detection.ret = Ok(FALSE)

(* C8 as stated: a redirect destination that is an expansion of a variable *)
(* (bare, braced or either in double quotes) whose text contains           *)
(* GITHUB_ENV in any letter case is matched, so that a command other than  *)
(* `echo` redirected into it is reported.                                   *)
C8_DestinationAnyCase ==
    (/\ pc = "done"
     /\ step.body.run.lang = "bash"
     /\ Len(step.body.run.stages) = 1
     /\ step.body.run.stages[1].name # "echo"
     /\ step.body.run.redirects # <<>>
     /\ step.body.run.redirects[1].dest.form \in VarForms
     /\ Contains(step.body.run.redirects[1].dest.name, SENSITIVE, TRUE)
     /\ detection.ret.kind = "Ok")
    => detection.ret = Ok(TRUE)

(* C8, amended: such a destination is matched when its text contains       *)
(* GITHUB_ENV in exactly this spelling (as in $MY_GITHUB_ENV), and is not  *)
(* matched when it names it in another letter case only (as in             *)
(* $github_env): a command other than `echo` redirected into it is         *)
(* reported in the first case and not in the second.                        *)
C8_DestinationSameCase ==
    (/\ pc = "done"
     /\ step.body.run.lang = "bash"
     /\ Len(step.body.run.stages) = 1
     /\ step.body.run.stages[1].name # "echo"
     /\ step.body.run.redirects # <<>>
     /\ step.body.run.redirects[1].dest.form \in VarForms
     /\ detection.ret.kind = "Ok")
    => /\ Contains(step.body.run.redirects[1].dest.name, SENSITIVE, FALSE)
            => detection.ret = Ok(TRUE)
       /\ ~Contains(step.body.run.redirects[1].dest.name, SENSITIVE, FALSE)
            => detection.ret = Ok(FALSE)

(* `unknown-command > "${github_env}"` detected: not reported. *)
C8_Witness ==
    /\ pc = "done"
    /\ step.body.run.lang = "bash"
    /\ Len(step.body.run.stages) = 1
    /\ step.body.run.stages[1].name = "unknown-command"
    /\ step.body.run.redirects = <<[op |-> ">", dest |-> Lex("dq_brace", <<"github_env">>)]>>
    /\ "bash_redirect_query" \in {detection.calls[i] : i \in DOMAIN detection.calls}
    /\ detection.ret = Ok(FALSE)

----------------------------------------------------------------------------
(* Properties of interleaved detections on one detector (SpecConc).         *)

(* C10: no two callers are inside the parse of the same dialect at once;   *)
(* a parser is borrowed exactly while one caller is inside its parse, so   *)
(* the borrow is released before that caller runs its patterns.             *)
C10_ParserExclusive ==
    /\ \A c1, c2 \in Callers :
          (/\ c1 # c2
           /\ callers[c1].pc = "parsing"
           /\ callers[c2].pc = "parsing")
          => callers[c1].dialect # callers[c2].dialect
    /\ bash_parser.borrowed
         <=> \E c \in Callers : callers[c].pc = "parsing" /\ callers[c].dialect = "bash"
    /\ pwsh_parser.borrowed
         <=> \E c \in Callers : callers[c].pc = "parsing" /\ callers[c].dialect = "pwsh"

(* One caller is inside the bash parse and another that asked for the bash *)
(* parser was refused.                                                      *)
C10_Witness ==
    \E c1, c2 \in Callers :
        /\ callers[c1].pc = "parsing"
        /\ callers[c1].dialect = "bash"
        /\ callers[c2].pc = "panicked"
        /\ callers[c2].dialect = "bash"
        /\ bash_parser.borrowed

----------------------------------------------------------------------------
(* Properties of detections one after another (SpecSeq).                    *)

====
